---- MODULE Spec2Model ----
(***************************************************************************)
(* A model of the IndexedDB convenience layer: the object-store accessor   *)
(* (IDBStore), the connection gateway and its cache (openDB), the storage  *)
(* facade (IDBStorage) and the React binding (useIDBStorage).              *)
(*                                                                         *)
(* JavaScript values are modelled as strings: "undefined" is the value a   *)
(* request for an absent key yields, "null" is the JavaScript null, the    *)
(* other strings stand for distinct plain-data values (deep equality is    *)
(* string equality).                                                       *)
(***************************************************************************)
EXTENDS Integers, Sequences, FiniteSets, TLC

\* ------------------------------------------------------------ bounds
\* Longest key list / entry list handed to getMany, setMany, deleteMany.
MaxBatch == 2

\* Most loadInitialValue calls suspended at an await at once.
MaxLoads == 2

\* ------------------------------------------------------------ values
Undefined == "undefined"
Null == "null"
\* Plain-data values a caller stores.
Values == {"null", "a"}
Results == Values \cup {Undefined}
Keys == {"k1", "k2"}
StoreNames == {"default", "other"}
\* The callers of the accessor: t1 uses every operation and its results are
\* observed; t2 is a concurrent writer (set, delete, update).
Tasks == {"t1", "t2"}
\* Connections the engine hands out.
ConnIds == {"c1", "c2"}
\* Updater functions passed to update(): the constant "a", and a toggle.
Updaters == {"toA", "flip"}

\* updater(currentValue) for the two updaters.
ApplyUpdater(f, c) ==
  IF f = "toA" THEN "a"
  ELSE IF c = "a" THEN "null" ELSE "a"

\* Sequences over S of length 0..n.
SeqsUpTo(S, n) == UNION {[1..m -> S] : m \in 0..n}

VARIABLES
  \* ---- the storage engine (persistent state of the one database)
  dbVersion,      \* version of the database, 0 when it does not exist
  dbStores,       \* the object stores the database holds
  records,        \* records[store][key]: stored value, or Undefined
  connState,      \* connState[c]: "unused", "open" or "closed"
  queue,          \* transactions created and not yet run, in creation order
  \* ---- callers of an IDBStore bound to (storeConn, storeName)
  storeConn,      \* the IDBDatabase the accessor was built on
  storeName,      \* the object store name it was built with
  task,           \* task[t]: the operation t has in flight, and its outcome
  \* ---- the gateway
  dbConnections,  \* the connection cache: dbConnections[<<database, version, store>>]
  \* ---- configuration and the facades (IDBStorage)
  globals,        \* the module-level defaults of utils.ts and of config.ts
  facade,         \* facade[f]: an IDBStorage object's config, db and dbPromise
  gw,             \* direct callers of openDB: their promises, the engine's open
                  \* requests and the connections these yielded
  \* ---- the binding (useIDBStorage)
  env,            \* what the mount is given: variant, engine availability, default
  hook,           \* hook[b]: binding b's state and refs, and the props of its last render
  loads,          \* loads[b]: b's loadInitialValue calls suspended at an await, oldest first
  \* ---- history (not program state)
  written,        \* written[key]: what the accessor's contract says key holds
  hist            \* hist[b]: b's last setter / remover call and what b wrote

storeVars == <<dbVersion, dbStores, records, connState, queue,
               storeConn, storeName, task, written>>
bindingVars == <<dbConnections, env, hook, loads, hist>>
facadeVars == <<globals, facade, gw>>
vars == <<dbVersion, dbStores, records, connState, queue, storeConn, storeName,
          task, written, dbConnections, env, hook, loads, hist, globals, facade, gw>>

\* ------------------------------------------------------------ engine
\* One request of a transaction.
Req(kind, key, val) == [kind |-> kind, key |-> key, val |-> val]

\* db.transaction([store], mode) throws when the connection is closed
\* (InvalidStateError) or the store is not in the database (NotFoundError).
TransactionThrows(c, s) == connState[c] # "open" \/ s \notin dbStores

\* The effect of one request on the contents of a store.
ApplyReq(contents, r) ==
  CASE r.kind = "put" -> [contents EXCEPT ![r.key] = r.val]
    [] r.kind = "delete" -> [contents EXCEPT ![r.key] = Undefined]
    [] r.kind = "clear" -> [k \in Keys |-> Undefined]
    [] OTHER -> contents

\* The engine's key order.
KeyOrder == <<"k1", "k2">>

\* The keys that hold a record, in key order.
HeldKeys(contents) == SelectSeq(KeyOrder, LAMBDA k : contents[k] # Undefined)

\* request.result of a reading request: the record of get, the keys of
\* getAllKeys, the values of getAll, and for openCursor the (key, value) pairs
\* the cursor visits, all in key order.
RequestResult(contents, r) ==
  LET ks == HeldKeys(contents)
  IN CASE r.kind = "getAllKeys" -> ks
       [] r.kind = "getAll" -> [i \in 1..Len(ks) |-> contents[ks[i]]]
       [] r.kind = "openCursor" -> [i \in 1..Len(ks) |-> <<ks[i], contents[ks[i]]>>]
       [] OTHER -> contents[r.key]

\* The contents of a store after the requests of a transaction, in order.
RECURSIVE ApplyReqs(_, _)
ApplyReqs(contents, rs) ==
  IF rs = <<>> THEN contents
  ELSE ApplyReqs(ApplyReq(contents, Head(rs)), Tail(rs))

\* ------------------------------------------------------------ IDBStore
IdleTask == [op |-> "none", st |-> "idle", key |-> "k1", val |-> Undefined,
             fn |-> "toA", keys |-> <<>>, entries |-> <<>>,
             res |-> Undefined, ress |-> <<>>, phase |-> "none",
             fcalls |-> 0, farg |-> Undefined, expect |-> Undefined,
             expects |-> <<>>, clean |-> TRUE, by |-> "none",
             byVal |-> Undefined,
             err |-> "none", errAt |-> 0]

\* A transaction as the engine queues it.
Txn(t, idx, s, rs) == [task |-> t, idx |-> idx, store |-> s, reqs |-> rs]

\* getFromDB: a readonly transaction with one get request.
GetFromDB(t, idx, key) == Txn(t, idx, storeName, <<Req("get", key, Undefined)>>)

\* Mutant of SetInDB: a falsy value (null) is not written.
SetInDB_SkipFalsy(t, key, value) ==
  Txn(t, 0, storeName, IF value = Null THEN <<>> ELSE <<Req("put", key, value)>>)

\* setInDB: a readwrite transaction with one put request.
SetInDB(t, key, value) == Txn(t, 0, storeName, <<Req("put", key, value)>>)

\* removeFromDB: a readwrite transaction with one delete request.
RemoveFromDB(t, key) == Txn(t, 0, storeName, <<Req("delete", key, Undefined)>>)

\* setMany: one readwrite transaction, one put per entry, in entry order.
SetManyTxn(t, entries) ==
  Txn(t, 0, storeName,
      [i \in 1..Len(entries) |-> Req("put", entries[i][1], entries[i][2])])

\* Mutant of DeleteManyTxn: only the first key is deleted.
DeleteManyTxn_FirstOnly(t, keys) ==
  Txn(t, 0, storeName,
      [i \in 1..(IF keys = <<>> THEN 0 ELSE 1) |-> Req("delete", keys[i], Undefined)])

\* deleteMany: one readwrite transaction, one delete per key.
DeleteManyTxn(t, keys) ==
  Txn(t, 0, storeName, [i \in 1..Len(keys) |-> Req("delete", keys[i], Undefined)])

\* Mutant of ClearTxn: only the first key is deleted.
ClearTxn_FirstKey(t) == Txn(t, 0, storeName, <<Req("delete", "k1", Undefined)>>)

\* clear: a readwrite transaction with one clear request.
ClearTxn(t) == Txn(t, 0, storeName, <<Req("clear", "k1", Undefined)>>)

\* The request behind keys(), values() and entries().
ScanKind(op) ==
  CASE op = "keys" -> "getAllKeys"
    [] op = "values" -> "getAll"
    [] OTHER -> "openCursor"

\* keys / values / entries: a readonly transaction with one getAllKeys,
\* getAll or openCursor request.
ScanTxn(t, kind) == Txn(t, 0, storeName, <<Req(kind, "k1", Undefined)>>)

\* Mutant of GetManyTxns: results land in reverse positions.
GetManyTxns_Reversed(t, keys) ==
  [i \in 1..Len(keys) |-> GetFromDB(t, Len(keys) + 1 - i, keys[i])]

\* getMany: keys.map(get), every get its own readonly transaction.
GetManyTxns(t, keys) == [i \in 1..Len(keys) |-> GetFromDB(t, i, keys[i])]

\* The transactions an operation creates synchronously when it is called.
FirstTxns(t, op, key, val, keys, entries) ==
  CASE op = "get" -> <<GetFromDB(t, 0, key)>>
    [] op = "set" -> <<SetInDB(t, key, val)>>
    [] op = "delete" -> <<RemoveFromDB(t, key)>>
    [] op = "update" -> <<GetFromDB(t, 0, key)>>
    [] op = "getMany" -> GetManyTxns(t, keys)
    [] op = "setMany" -> <<SetManyTxn(t, entries)>>
    [] op = "deleteMany" -> <<DeleteManyTxn(t, keys)>>
    [] op = "clear" -> <<ClearTxn(t)>>
    [] op \in {"keys", "values", "entries"} -> <<ScanTxn(t, ScanKind(op))>>

\* The shapes of call each task makes.
Calls(t) ==
  LET writes ==
        [op : {"delete"}, key : Keys, val : {Undefined}, fn : {"toA"},
         keys : {<<>>}, entries : {<<>>}]
        \cup [op : {"set"}, key : Keys, val : Values, fn : {"toA"},
              keys : {<<>>}, entries : {<<>>}]
        \cup [op : {"update"}, key : Keys, val : {Undefined}, fn : Updaters,
              keys : {<<>>}, entries : {<<>>}]
      reads ==
        [op : {"get"}, key : Keys, val : {Undefined}, fn : {"toA"},
         keys : {<<>>}, entries : {<<>>}]
        \cup [op : {"clear", "keys", "values", "entries"}, key : {"k1"},
              val : {Undefined}, fn : {"toA"}, keys : {<<>>}, entries : {<<>>}]
      batch ==
        [op : {"getMany", "deleteMany"}, key : {"k1"}, val : {Undefined},
         fn : {"toA"}, keys : SeqsUpTo(Keys, MaxBatch), entries : {<<>>}]
        \cup [op : {"setMany"}, key : {"k1"}, val : {Undefined}, fn : {"toA"},
              keys : {<<>>}, entries : SeqsUpTo(Keys \X Values, MaxBatch)]
  IN IF t = "t1" THEN reads \cup writes \cup batch ELSE writes

\* A task calls an operation of the accessor: the synchronous part, up to the
\* first await.  A throwing transaction() rejects the call.
Call(t) ==
  /\ task[t].st # "pending"
  /\ \E c \in Calls(t) :
       LET txns == FirstTxns(t, c.op, c.key, c.val, c.keys, c.entries)
           base == [IdleTask EXCEPT !.op = c.op, !.key = c.key, !.val = c.val,
                      !.fn = c.fn, !.keys = c.keys, !.entries = c.entries]
       IN IF TransactionThrows(storeConn, storeName)
          THEN /\ task' = [task EXCEPT ![t] = [base EXCEPT !.st = "failed"]]
               /\ queue' = queue
          ELSE IF txns = <<>>
          THEN \* Promise.all([]) resolves; an empty transaction changes nothing
               /\ task' = [task EXCEPT ![t] = [base EXCEPT !.st = "done"]]
               /\ queue' = queue
          ELSE /\ task' = [task EXCEPT ![t] =
                             [base EXCEPT !.st = "pending",
                                !.phase = IF c.op = "update" THEN "reading" ELSE "none",
                                !.ress = [i \in 1..Len(c.keys) |-> "pending"],
                                !.expects = [i \in 1..Len(c.keys) |-> "pending"]]]
               /\ queue' = queue \o txns
  /\ UNCHANGED <<dbVersion, dbStores, records, connState, storeConn, storeName, written>>
  /\ UNCHANGED bindingVars
  /\ UNCHANGED facadeVars

\* What the accessor's contract says a store holds after an operation completes.
Contract(w, tk, newValue) ==
  CASE tk.op = "set" -> [w EXCEPT ![tk.key] = tk.val]
    [] tk.op = "delete" -> [w EXCEPT ![tk.key] = Undefined]
    [] tk.op = "update" /\ tk.phase = "writing" -> [w EXCEPT ![tk.key] = newValue]
    [] tk.op = "setMany" ->
         [k \in Keys |->
            IF \E i \in 1..Len(tk.entries) : tk.entries[i][1] = k
            THEN LET last == CHOOSE i \in 1..Len(tk.entries) :
                               /\ tk.entries[i][1] = k
                               /\ \A j \in (i+1)..Len(tk.entries) : tk.entries[j][1] # k
                 IN tk.entries[last][2]
            ELSE w[k]]
    [] tk.op = "deleteMany" ->
         [k \in Keys |->
            IF \E i \in 1..Len(tk.keys) : tk.keys[i] = k THEN Undefined ELSE w[k]]
    [] tk.op = "clear" -> [k \in Keys |-> Undefined]
    [] OTHER -> w

\* IDBStore.get after its await: resolve with the request's result.
GetResolve(tk, got) ==
  [tk EXCEPT !.st = "done", !.res = got, !.expect = written[tk.key]]

\* IDBStore.getMany: Promise.all puts each get's result at its key's position
\* and resolves when every position is filled.
GetManyResolve(tk, idx, got) ==
  LET rs == [tk.ress EXCEPT ![idx] = got]
  IN [tk EXCEPT !.ress = rs,
        !.expects = [tk.expects EXCEPT ![idx] = written[tk.keys[idx]]],
        !.st = IF \A i \in 1..Len(rs) : rs[i] # "pending" THEN "done" ELSE "pending"]

\* Mutant of UpdateCompute: the value read is written back; the updater's
\* result is dropped.
UpdateCompute_IgnoresUpdater(tk, got) ==
  [tk EXCEPT !.phase = "writing", !.farg = got, !.fcalls = tk.fcalls + 1,
     !.val = got]

\* Mutant of UpdateCompute: the updater is called without the current value.
UpdateCompute_NoCurrent(tk, got) ==
  [tk EXCEPT !.phase = "writing", !.farg = Undefined, !.fcalls = tk.fcalls + 1,
     !.val = ApplyUpdater(tk.fn, Undefined)]

\* IDBStore.update after `await this.get(key)`: newValue = updater(currentValue),
\* then this.set(key, newValue) is called.
UpdateCompute(tk, got) ==
  [tk EXCEPT !.phase = "writing", !.farg = got, !.fcalls = tk.fcalls + 1,
     !.val = ApplyUpdater(tk.fn, got)]

\* IDBStore.keys / values after the await: resolve with request.result.
ScanResolve(tk, got) ==
  [tk EXCEPT !.st = "done", !.ress = got,
     !.expects = [i \in 1..Len(HeldKeys(written)) |->
                    <<HeldKeys(written)[i], written[HeldKeys(written)[i]]>>]]

\* Mutant of EntriesResolve: the cursor is not continued.
EntriesResolve_NoContinue(tk, got) ==
  [ScanResolve(tk, got) EXCEPT !.ress = SubSeq(got, 1, IF got = <<>> THEN 0 ELSE 1)]

\* IDBStore.entries: the success handler pushes [cursor.key, cursor.value] and
\* continues the cursor until it is exhausted, then resolves with the list.
EntriesResolve(tk, got) == ScanResolve(tk, got)

\* The task's state after the success event of its transaction h, whose get
\* request (if any) yielded `got`: the continuation after the await.
Continue(tk, h, got) ==
  CASE tk.op = "get" -> GetResolve(tk, got)
    [] tk.op = "getMany" -> GetManyResolve(tk, h.idx, got)
    [] tk.op = "update" /\ tk.phase = "reading" -> UpdateCompute(tk, got)
    [] tk.op \in {"keys", "values"} -> ScanResolve(tk, got)
    [] tk.op = "entries" -> EntriesResolve(tk, got)
    [] tk.op = "clear" -> [tk EXCEPT !.st = "done", !.expects = HeldKeys(written)]
    [] OTHER -> [tk EXCEPT !.st = "done"]

\* The engine runs the oldest transaction and fires its success events; the
\* awaiting operation continues in the same turn (update issues its set).
EngineRun ==
  /\ queue # <<>>
  /\ Head(queue).task \in Tasks
  /\ LET h == Head(queue)
         t == h.task
         tk == task[t]
         old == records[h.store]
         new == ApplyReqs(old, h.reqs)
         got == RequestResult(old, h.reqs[1])
         ct == Continue(tk, h, got)
         nt == IF t # "t1" /\ ct.st = "done" THEN IdleTask ELSE ct
         more == IF tk.op = "update" /\ tk.phase = "reading"
                 THEN <<SetInDB(t, tk.key, nt.val)>> ELSE <<>>
         wrote == IF \E i \in 1..Len(h.reqs) : h.reqs[i].kind = "clear" THEN Keys
                  ELSE {h.reqs[i].key : i \in {j \in 1..Len(h.reqs) :
                                                  h.reqs[j].kind \in {"put", "delete"}}}
     IN /\ records' = [records EXCEPT ![h.store] = new]
        /\ written' = Contract(written, tk, tk.val)
        /\ task' = [u \in Tasks |->
                      IF u = t THEN nt
                      ELSE IF task[u].st = "pending" /\ task[u].op = "update"
                              /\ task[u].key \in wrote
                      THEN [task[u] EXCEPT !.clean = FALSE, !.by = tk.op,
                                           !.byVal = new[task[u].key]]
                      ELSE task[u]]
        /\ queue' = Tail(queue) \o more
  /\ UNCHANGED <<dbVersion, dbStores, connState, storeConn, storeName>>
  /\ UNCHANGED bindingVars
  /\ UNCHANGED facadeVars

\* Mutant of RequestErrorOutcome: the error handler calls preventDefault(), so
\* the transaction goes on and commits its other requests.
RequestErrorOutcome_Prevented(contents, rs, i) ==
  ApplyReqs(contents, SubSeq(rs, 1, i - 1) \o SubSeq(rs, i + 1, Len(rs)))

\* The contents of a store after request i of a transaction failed.  The
\* handler is `request.onerror = () => reject(request.error)`: it does not
\* call preventDefault(), so the engine aborts the transaction and undoes the
\* requests that had succeeded.
RequestErrorOutcome(contents, rs, i) == contents

\* The engine runs the oldest transaction and request i of it fails: the error
\* event rejects the request's promise, Promise.all and the awaiting operation
\* reject with it (the catch block logs and rethrows the engine's error), and
\* the transaction is aborted.  The other reads of a rejected getMany run
\* unobserved and are dropped here.
EngineRequestError ==
  /\ queue # <<>>
  /\ Head(queue).task \in Tasks
  /\ \E i \in 1..Len(Head(queue).reqs) :
       LET h == Head(queue)
           t == h.task
           ft == [task[t] EXCEPT !.st = "failed", !.err = "request", !.errAt = i]
       IN /\ records' = [records EXCEPT ![h.store] = RequestErrorOutcome(@, h.reqs, i)]
          /\ task' = [task EXCEPT ![t] = IF t # "t1" THEN IdleTask ELSE ft]
          /\ queue' = SelectSeq(Tail(queue), LAMBDA x : x.task # t)
  /\ UNCHANGED <<dbVersion, dbStores, connState, storeConn, storeName, written>>
  /\ UNCHANGED bindingVars
  /\ UNCHANGED facadeVars

\* The engine runs the oldest transaction, a writing one; its requests succeed
\* and their success events resolve the awaiting operation, then the commit
\* fails and the transaction is aborted.  No handler is set on the transaction
\* (onabort, onerror, oncomplete), so the operation has resolved.
EngineCommitAbort ==
  /\ queue # <<>>
  /\ Head(queue).task \in Tasks
  /\ \E i \in 1..Len(Head(queue).reqs) :
       Head(queue).reqs[i].kind \in {"put", "delete", "clear"}
  /\ LET h == Head(queue)
         t == h.task
         ct == [Continue(task[t], h, Undefined) EXCEPT !.err = "commit"]
     IN /\ task' = [task EXCEPT ![t] = IF t # "t1" THEN IdleTask ELSE ct]
        /\ queue' = Tail(queue)
  /\ UNCHANGED <<dbVersion, dbStores, records, connState, storeConn, storeName,
                 written>>
  /\ UNCHANGED bindingVars
  /\ UNCHANGED facadeVars

\* ------------------------------------------------------------ configuration
\* Configuration versions are written in tenths (15 is 1.5), so that flooring
\* does something; the gateway's version arguments are whole numbers.
Tenth == 10
ConfigFields == {"database", "version", "store"}

\* The hard-coded defaults: database 'sohanemon-idb', version 1, store 'default'.
DefaultConfig == [database |-> "sohanemon-idb", version |-> Tenth, store |-> "default"]

\* A Partial<IDBConfigValues>: the fields that are given, and their values.
Partial(given, val) == [given |-> given, val |-> val]
NoOverride == Partial({}, DefaultConfig)

\* The partial configurations callers pass.
ConfigInputs ==
  {NoOverride,
   Partial({"database"}, [DefaultConfig EXCEPT !.database = "app"]),
   Partial({"store"}, [DefaultConfig EXCEPT !.store = "other"]),
   Partial({"version"}, [DefaultConfig EXCEPT !.version = 15]),
   Partial({"version"}, [DefaultConfig EXCEPT !.version = 0]),
   Partial({"version"}, [DefaultConfig EXCEPT !.version = 20]),
   Partial(ConfigFields, [database |-> "app", version |-> 20, store |-> "other"])}

\* { ...base, ...partial }
Spread(base, partial) ==
  [f \in ConfigFields |-> IF f \in partial.given THEN partial.val[f] ELSE base[f]]

\* The two module-level defaults: utils.ts (behind the exported
\* configureIDBStorage / getGlobalConfig) and config.ts (behind useIDBConfig
\* and the rich variant of the hook).
GlobalsInit == [utils |-> DefaultConfig, config |-> DefaultConfig]

\* Math.max(1, Math.floor(v)) of a version in tenths, as a whole number.
ClampVersion(v) == IF v \div Tenth >= 1 THEN v \div Tenth ELSE 1

\* The return value of getGlobalConfig(): a copy with every field given.
Whole(config) == Partial(ConfigFields, config)

\* IDBStorage's constructor: { ...defaultConfig, ...getGlobalConfig(), ...config },
\* where getGlobalConfig is the one of utils.ts (g).
IDBStorageConfig(g, config) == Spread(Spread(DefaultConfig, Whole(g)), config)

\* The value of the IDBConfig context provider of idb-context.tsx for its props.
ContextValue(props) ==
  [database |-> IF "database" \in props.given THEN props.val.database
                ELSE DefaultConfig.database,
   version |-> IF "version" \in props.given /\ props.val.version # 0
               THEN props.val.version ELSE Tenth,
   store |-> IF "store" \in props.given THEN props.val.store
             ELSE DefaultConfig.store]

\* useIDBConfig(): the context value, or getGlobalConfig() of config.ts (g).
UseIDBConfig(provided, props, g) == IF provided THEN ContextValue(props) ELSE g

\* The configuration the simple variant of the hook resolves from its options
\* and the context: opts.x || contextConfig.x, the version floored and clamped.
HookConfig(opts, ctx) ==
  [database |-> IF "database" \in opts.given THEN opts.val.database ELSE ctx.database,
   version |-> Tenth * ClampVersion(
                 IF "version" \in opts.given /\ opts.val.version # 0
                 THEN opts.val.version
                 ELSE IF ctx.version # 0 THEN ctx.version ELSE Tenth),
   store |-> IF "store" \in opts.given THEN opts.val.store ELSE ctx.store]

\* The rich variant: conf = { ...getGlobalConfig(), ...opts } with the
\* getGlobalConfig of config.ts (g).
RichConfig(opts, g) == Spread(g, opts)

\* ------------------------------------------------------------ gateway (openDB)
\* The version argument of openDB and indexedDB.open: a positive integer,
\* NoVersion when it is undefined, FnVersion when a function was passed.
NoVersion == 0
FnVersion == -1
VersionArgs == {FnVersion, NoVersion, 1, 2}
\* Database names: the hard-coded default and one an application configures.
DbNames == {"sohanemon-idb", "app"}
CacheKeys == DbNames \X VersionArgs \X StoreNames

\* indexedDB.open(name, version) throws a TypeError, before it creates a
\* request, when version does not convert to a number ([EnforceRange]).
OpenThrows(version) == version = FnVersion

\* The promise openDB(dbName, storeName, version) returns: it throws when the
\* engine is unavailable, returns the cached promise of the key when there is
\* one, and otherwise the promise of _openDB, which is rejected at once when
\* indexedDB.open throws inside the executor and pending on the request's
\* handlers otherwise.
OpenDBPromise(cache, avail, dbName, version, store) ==
  IF ~avail THEN "rejected"
  ELSE IF cache[<<dbName, version, store>>] # "absent"
       THEN cache[<<dbName, version, store>>]
  ELSE IF OpenThrows(version) THEN "rejected" ELSE "pending"

\* The connection cache after that call: dbConnections.set(key, dbPromise).
OpenDBCache(cache, avail, dbName, version, store) ==
  IF ~avail THEN cache
  ELSE [cache EXCEPT ![<<dbName, version, store>>] =
                        OpenDBPromise(cache, avail, dbName, version, store)]

\* ---- direct callers of openDB
\* The calls of openDB the model follows, each made once, all on one database.
GwCalls == {"o1", "o2", "o3"}
GwDb == "sohanemon-idb"
GwVersions == {1, 2}

\* A call before it is made.  st: "idle", then "pending", "resolved" or
\* "rejected" for the promise the call created, or "shared" when the call got
\* the cached promise of call `owner`.  attempt is the version argument of
\* the indexedDB.open the promise waits on, conn the index of the connection
\* it resolved with.  opens and expect are history: the engine opens issued
\* for this call, and the call whose promise was live under the key when
\* this call was made; why is the name of the error it was rejected with.
GwIdle == [st |-> "idle", store |-> "default", version |-> 1, attempt |-> 1,
           owner |-> "none", conn |-> 0, opens |-> 0, expect |-> "none",
           why |-> "none"]

\* No call made, no open requested, no connection.  live[key] is history: the
\* call whose promise was created under key and not released since.
GwInit == [calls |-> [o \in GwCalls |-> GwIdle], pend |-> <<>>, conns |-> <<>>,
           live |-> [k \in CacheKeys |-> "none"]]

\* dbConnections.delete(`${dbName}:${version ?? 'current'}:${storeName}`).
\* No entry is ever set under 'current' or under a version no caller asked for.
DeleteKey(cache, version, store) ==
  IF <<GwDb, version, store>> \in CacheKeys
  THEN [cache EXCEPT ![<<GwDb, version, store>>] = "absent"]
  ELSE cache

\* The loop of db.onversionchange: every key of the database is deleted.
ClearDb(cache) ==
  [k \in CacheKeys |-> IF k[1] = GwDb THEN "absent" ELSE cache[k]]

\* A caller calls openDB(GwDb, store, version): it gets the cached promise of
\* the key, or a new promise is created, its open requested, and the promise
\* is put in the cache.
OpenDB(o) ==
  /\ gw.calls[o].st = "idle"
  /\ env.idbAvailable
  /\ \E store \in StoreNames, version \in GwVersions :
       LET key == <<GwDb, version, store>>
           p == OpenDBPromise(dbConnections, env.idbAvailable, GwDb, version, store)
           c == [GwIdle EXCEPT !.store = store, !.version = version,
                               !.attempt = version, !.expect = gw.live[key]]
       IN IF p \in GwCalls
          THEN /\ gw' = [gw EXCEPT !.calls[o] = [c EXCEPT !.st = "shared", !.owner = p]]
               /\ dbConnections' = dbConnections
          ELSE /\ gw' = [gw EXCEPT
                          !.calls[o] = [c EXCEPT !.st = "pending", !.owner = o,
                                                 !.opens = 1],
                          !.pend = Append(@, o),
                          !.live[key] = IF @ = "none" THEN o ELSE @]
               /\ dbConnections' = [dbConnections EXCEPT ![key] = o]
  /\ UNCHANGED <<storeVars, env, hook, loads, hist, globals, facade>>

\* Mutant of Requeue: the retry's open is never requested.
Requeue_Dropped(pend, o) == Tail(pend)

\* A retry, `resolve(_openDB(...))`, of the call whose request the engine just
\* answered: a new indexedDB.open, served after the requests already made.
Requeue(pend, o) == Append(Tail(pend), o)

\* Mutant of OpenSuccess: the connection is returned without looking for the
\* store.
OpenSuccess_NoStoreCheck(has, currentVersion) ==
  [resolve |-> TRUE, close |-> FALSE, retry |-> NoVersion]

\* request.onsuccess of _openDB on a connection that has the store or not: it
\* resolves with the connection, or closes it and retries at db.version + 1.
OpenSuccess(has, currentVersion) ==
  IF has THEN [resolve |-> TRUE, close |-> FALSE, retry |-> NoVersion]
  ELSE [resolve |-> FALSE, close |-> TRUE, retry |-> currentVersion + 1]

\* The engine fails the oldest open request with a VersionError: the database
\* is at a higher version than the one asked for.  onerror deletes the key of
\* the attempt and, when the error's message contains 'less than', retries
\* without a version; the wording of the message is the engine's, so either
\* may happen.
EngineOpenError ==
  /\ gw.pend # <<>>
  /\ LET o == Head(gw.pend)
         c == gw.calls[o]
     IN /\ c.attempt # NoVersion
        /\ dbVersion > c.attempt
        /\ dbConnections' = DeleteKey(dbConnections, c.attempt, c.store)
        /\ \E lessThan \in BOOLEAN :
             IF lessThan
             THEN gw' = [gw EXCEPT !.calls[o].attempt = NoVersion,
                                   !.calls[o].opens = @ + 1,
                                   !.pend = Requeue(@, o)]
             ELSE gw' = [gw EXCEPT !.calls[o].st = "rejected",
                                   !.calls[o].why = "VersionError",
                                   !.pend = Tail(@),
                                   !.live = [k \in CacheKeys |->
                                               IF @[k] = o THEN "none" ELSE @[k]]]
  /\ UNCHANGED <<storeVars, env, hook, loads, hist, globals, facade>>

\* The engine fails the oldest open request with another error (the database
\* cannot be read, the quota is used up): onerror deletes the key of the
\* attempt and rejects the promise.
EngineOpenFail ==
  /\ gw.pend # <<>>
  /\ LET o == Head(gw.pend)
         c == gw.calls[o]
     IN /\ dbConnections' = DeleteKey(dbConnections, c.attempt, c.store)
        /\ gw' = [gw EXCEPT !.calls[o].st = "rejected",
                            !.calls[o].why = "UnknownError",
                            !.pend = Tail(@),
                            !.live = [k \in CacheKeys |->
                                        IF @[k] = o THEN "none" ELSE @[k]]]
  /\ UNCHANGED <<storeVars, env, hook, loads, hist, globals, facade>>

\* The engine serves the oldest open request.  An open above the database's
\* version first sends versionchange to the open connections, whose handler
\* closes them and deletes every key of the database from the cache, then
\* upgrades: onupgradeneeded creates the store when it is missing.  Then the
\* success event: see OpenSuccess.
EngineOpen ==
  /\ gw.pend # <<>>
  /\ LET o == Head(gw.pend)
         c == gw.calls[o]
         target == IF c.attempt # NoVersion THEN c.attempt
                   ELSE IF dbVersion = 0 THEN 1 ELSE dbVersion
         upgrade == target > dbVersion
         notified == upgrade /\ \E i \in DOMAIN gw.conns : gw.conns[i].st = "open"
         stores == IF upgrade THEN dbStores \cup {c.store} ELSE dbStores
         conns1 == IF upgrade
                   THEN [i \in DOMAIN gw.conns |-> [gw.conns[i] EXCEPT !.st = "closed"]]
                   ELSE gw.conns
         cache1 == IF notified THEN ClearDb(dbConnections) ELSE dbConnections
         live1 == IF notified
                  THEN [k \in CacheKeys |-> IF k[1] = GwDb THEN "none" ELSE gw.live[k]]
                  ELSE gw.live
         has == c.store \in stores
         out == OpenSuccess(has, target)
         conn == [st |-> IF out.close THEN "closed" ELSE "open", for |-> o,
                  has |-> has, version |-> target, next |-> out.retry]
     IN /\ ~(c.attempt # NoVersion /\ dbVersion > c.attempt)
        /\ dbVersion' = target
        /\ dbStores' = stores
        /\ IF out.resolve
           THEN /\ gw' = [gw EXCEPT !.calls[o].st = "resolved",
                                    !.calls[o].conn = Len(conns1) + 1,
                                    !.conns = Append(conns1, conn),
                                    !.pend = Tail(@),
                                    !.live = live1]
                /\ dbConnections' = cache1
           ELSE /\ gw' = [gw EXCEPT !.calls[o].attempt = out.retry,
                                    !.calls[o].opens = @ + 1,
                                    !.conns = Append(conns1, conn),
                                    !.pend = Requeue(@, o),
                                    !.live = live1]
                /\ dbConnections' = DeleteKey(cache1, c.attempt, c.store)
  /\ UNCHANGED <<records, connState, queue, storeConn, storeName, task, written>>
  /\ UNCHANGED <<env, hook, loads, hist, globals, facade>>

\* ------------------------------------------------------------ IDBStorage
\* IDBStorage.getDB calls openDB(this.config.database, this.config.store,
\* () => {...}): the callback is the third argument, openDB's version.
GetDBVersionArg == FnVersion


Facades == {"idb", "f1", "f2"}

\* An IDBStorage object.  input, via, name and afterClose are history: the
\* constructor's argument, who constructed it, the store name of the last get,
\* whether close() was called ("closed") and how the last get since then
\* settled, and whether a get found dbPromise set and returned it.
NewFacade(config, input, via) ==
  [made |-> TRUE, config |-> config, db |-> "none", dbPromise |-> "none",
   out |-> "none", name |-> "default", input |-> input, via |-> via,
   afterClose |-> "no", joined |-> FALSE]

NoFacade == [NewFacade(DefaultConfig, NoOverride, "none") EXCEPT !.made = FALSE]

\* index.ts: `export const idb = new IDBStorage()` runs when the module is
\* imported; the other facades are not constructed yet.
FacadeInit ==
  [f \in Facades |->
     IF f = "idb"
     THEN NewFacade(IDBStorageConfig(GlobalsInit.utils, NoOverride), NoOverride, "import")
     ELSE NoFacade]

\* IDBStorage.get(name), that is getDB() and `new IDBStore(db, name)`, on
\* facade record fc with connection cache `cache`: the facade afterwards.
\* An open connection is reused; else the promise in flight is awaited; else
\* openDB is called (a throw of openDB leaves dbPromise unset).
GetDB(fc, cache, avail, name) ==
  IF fc.db # "none" THEN [fc EXCEPT !.out = "resolved", !.name = name]
  ELSE LET p == IF fc.dbPromise # "none" THEN fc.dbPromise
                ELSE OpenDBPromise(cache, avail, fc.config.database,
                                   GetDBVersionArg, fc.config.store)
       IN IF p = "rejected"
          THEN [fc EXCEPT !.out = "rejected", !.name = name,
                          !.dbPromise = IF avail THEN "rejected" ELSE @]
          ELSE IF p = "pending"
          THEN [fc EXCEPT !.out = "pending", !.name = name, !.dbPromise = p]
          ELSE [fc EXCEPT !.out = "resolved", !.name = name, !.db = p,
                          !.dbPromise = "none"]

\* The connection cache after that get.
GetDBCache(fc, cache, avail) ==
  IF fc.db # "none" \/ fc.dbPromise # "none" THEN cache
  ELSE OpenDBCache(cache, avail, fc.config.database, GetDBVersionArg, fc.config.store)

\* configureIDBStorage(config) of utils.ts, the one index.ts exports.
ConfigureIDBStorage ==
  /\ \E c \in ConfigInputs : globals' = [globals EXCEPT !.utils = Spread(@, c)]
  /\ UNCHANGED <<storeVars, bindingVars, facade, gw>>

\* new IDBStorage(config) by a caller.
New(f) ==
  /\ f # "idb"
  /\ \E c \in ConfigInputs :
       facade' = [facade EXCEPT ![f] = NewFacade(IDBStorageConfig(globals.utils, c), c, "new")]
  /\ UNCHANGED <<storeVars, bindingVars, globals, gw>>

\* A hook renders with options opts, inside or outside a provider, and its
\* load constructs `new IDBStorage(...)` from the configuration it resolved.
HookNew ==
  /\ \E opts \in ConfigInputs, provided \in BOOLEAN :
       \/ facade' = [facade EXCEPT !["f2"] =
            NewFacade(IDBStorageConfig(globals.utils,
                        Whole(HookConfig(opts,
                                UseIDBConfig(provided, Partial({"database"},
                                               [DefaultConfig EXCEPT !.database = "app"]),
                                             globals.config)))),
                      opts, IF provided THEN "hookInProvider" ELSE "hook")]
       \/ /\ ~provided
          /\ facade' = [facade EXCEPT !["f2"] =
               NewFacade(IDBStorageConfig(globals.utils,
                                          Whole(RichConfig(opts, globals.config))),
                         opts, "richHook")]
  /\ UNCHANGED <<storeVars, bindingVars, globals, gw>>

\* A caller awaits facade.get(name) (or facade.store: get(config.store)).
FacadeGet(f) ==
  /\ facade[f].made
  /\ \E name \in StoreNames :
       LET fc == GetDB(facade[f], dbConnections, env.idbAvailable, name)
       IN /\ facade' = [facade EXCEPT ![f] =
                          [fc EXCEPT !.afterClose = IF @ = "no" THEN @ ELSE fc.out]]
          /\ dbConnections' = GetDBCache(facade[f], dbConnections, env.idbAvailable)
  /\ UNCHANGED <<storeVars, env, hook, loads, hist, globals, gw>>

\* A caller awaits facade.get(name) while the facade's dbPromise is set: getDB
\* returns this.dbPromise and calls openDB no more.
FacadeJoin(f) ==
  /\ facade[f].made
  /\ facade[f].db = "none"
  /\ facade[f].dbPromise # "none"
  /\ \E name \in StoreNames :
       LET fc == GetDB(facade[f], dbConnections, env.idbAvailable, name)
       IN facade' = [facade EXCEPT ![f] =
                       [fc EXCEPT !.afterClose = IF @ = "no" THEN @ ELSE fc.out,
                                  !.joined = TRUE]]
  /\ UNCHANGED <<storeVars, bindingVars, globals, gw>>

\* A caller awaits facade.drop(name): get(name), then clear() on the accessor.
FacadeDrop(f) ==
  /\ facade[f].made
  /\ \E name \in StoreNames :
       LET fc == GetDB(facade[f], dbConnections, env.idbAvailable, name)
       IN /\ dbConnections' = GetDBCache(facade[f], dbConnections, env.idbAvailable)
          /\ IF fc.out = "resolved" /\ ~TransactionThrows(fc.db, name)
             THEN /\ queue' = Append(queue, Txn(f, 0, name, <<Req("clear", "k1", Undefined)>>))
                  /\ facade' = [facade EXCEPT ![f] = [fc EXCEPT !.out = "pending"]]
             ELSE /\ queue' = queue
                  /\ facade' = [facade EXCEPT ![f] =
                                  [fc EXCEPT !.out = IF @ = "resolved" THEN "rejected" ELSE @]]
  /\ UNCHANGED <<dbVersion, dbStores, records, connState, storeConn, storeName,
                 task, written, env, hook, loads, hist, globals, gw>>

\* facade.close(): closes the connection it holds, if any, and forgets it;
\* dbPromise and the gateway's cache entry are left as they are.
FacadeClose(f) ==
  /\ facade[f].made
  /\ connState' = IF facade[f].db # "none"
                   THEN [connState EXCEPT ![facade[f].db] = "closed"]
                   ELSE connState
  /\ facade' = [facade EXCEPT ![f].db = "none", ![f].afterClose = "closed"]
  /\ UNCHANGED <<dbVersion, dbStores, records, queue, storeConn, storeName,
                 task, written, bindingVars, globals, gw>>

\* ------------------------------------------------------------ useIDBStorage
\* The database and the object store of the binding's configuration.
bDatabase == "sohanemon-idb"
bStore == "default"
\* What a setter is called with: a value, or an updater function.
SetterArgs == Values \cup Updaters

\* The components that use the hook; b2 is only mounted in SpecPair.
Bindings == {"b1", "b2"}

HookInit ==
  [key |-> "k1", mounted |-> "no", storedValue |-> Null,
   error |-> FALSE, lastUpdated |-> FALSE,
   isInitializedRef |-> FALSE, hasLoadedRef |-> FALSE, isFromIDBRef |-> FALSE,
   initialValueRef |-> Null, storageRef |-> "none", storeRef |-> "none",
   saveTimeoutRef |-> "none", timerKey |-> "k1", pendingValueRef |-> Null,
   needsRender |-> FALSE, seenValue |-> Null, seenLoading |-> TRUE,
   effectValue |-> Null, effectKey |-> "k1"]

HistInit ==
  [lastCall |-> "none", arg |-> Null, loaded |-> FALSE, key |-> "k1",
   writes |-> 0, lastWrite |-> Null, turn |-> FALSE, fn |-> "none", prev |-> Null]

\* Every binding before its mount, with the default value d; b2 is given key k2.
HooksInit(d) ==
  [b \in Bindings |->
     [HookInit EXCEPT !.storedValue = d, !.seenValue = d, !.effectValue = d,
                      !.key = IF b = "b1" THEN "k1" ELSE "k2",
                      !.timerKey = IF b = "b1" THEN "k1" ELSE "k2",
                      !.effectKey = IF b = "b1" THEN "k1" ELSE "k2"]]

\* The variables an effect or a callback of binding b reads and writes.
World(b) == [id |-> b, hook |-> hook[b], loads |-> loads[b], cache |-> dbConnections,
             queue |-> queue, conn |-> connState, hist |-> hist[b]]

\* storeRef.current.set(key, value): a put on the store's connection, or a
\* rejection (logged) when transaction() throws.
HookSet(w, key, value) ==
  IF TransactionThrows(w.hook.storeRef, bStore) THEN w
  ELSE [w EXCEPT
          !.queue = Append(@, Txn(w.id, 0, bStore, <<Req("put", key, value)>>)),
          !.hist = [@ EXCEPT !.writes = IF @ < 2 THEN @ + 1 ELSE @,
                             !.lastWrite = value]]

\* saveToIDB(value) of the render whose key is k.
SaveToIDB(h, value, k) ==
  IF ~h.isInitializedRef \/ h.storeRef = "none" \/ ~h.hasLoadedRef THEN h
  ELSE [h EXCEPT !.pendingValueRef = value, !.saveTimeoutRef = "armed",
                 !.timerKey = k]

\* The cleanup of the main effect whose closure holds key k: isMounted = false,
\* the timer is cleared and a pending value flushed, the storage closed.
CleanupW(w, k) ==
  LET h == w.hook
      w1 == [w EXCEPT !.loads = [i \in DOMAIN @ |-> [@[i] EXCEPT !.isMounted = FALSE]]]
      w2 == IF h.saveTimeoutRef # "none"
            THEN LET c == [w1 EXCEPT !.hook.saveTimeoutRef = "stale"]
                 IN IF h.pendingValueRef # Null /\ h.storeRef # "none"
                    THEN HookSet(c, k, h.pendingValueRef) ELSE c
            ELSE w1
  IN IF h.storageRef # "none"
     THEN [w2 EXCEPT !.conn = [@ EXCEPT ![h.storageRef] = "closed"],
                     !.hook.storageRef = "none", !.hook.storeRef = "none"]
     ELSE w2

\* Mutant of LoadStartW: the storage is opened without asking whether the
\* engine is there.
LoadStartW_NoAvailabilityCheck(w, k) ==
  [w EXCEPT
     !.cache = OpenDBCache(@, env.idbAvailable, bDatabase, GetDBVersionArg, bStore),
     !.loads = Append(@, [key |-> k, isMounted |-> TRUE, stage |-> "open",
                          promise |-> OpenDBPromise(w.cache, env.idbAvailable,
                                        bDatabase, GetDBVersionArg, bStore)])]

\* The main effect's body for key k: loadInitialValue() up to its first await.
LoadStartW(w, k) ==
  LET h == w.hook
  IN IF ~env.idbAvailable
     THEN [w EXCEPT !.hook.isInitializedRef = TRUE, !.hook.hasLoadedRef = TRUE,
                    !.hook.initialValueRef =
                       IF env.variant = "rich" THEN env.defaultValue ELSE @]
     ELSE [w EXCEPT
             !.conn = IF h.storageRef # "none"
                      THEN [@ EXCEPT ![h.storageRef] = "closed"] ELSE @,
             !.cache = OpenDBCache(@, TRUE, bDatabase, GetDBVersionArg, bStore),
             !.loads = Append(@, [key |-> k, isMounted |-> TRUE, stage |-> "open",
                                  promise |-> OpenDBPromise(w.cache, TRUE, bDatabase,
                                                GetDBVersionArg, bStore)])]

\* The effect that saves after a render whose state.value changed (rich variant).
SaveEffect(h) ==
  IF ~h.isInitializedRef \/ ~h.hasLoadedRef \/ h.isFromIDBRef
  THEN [h EXCEPT !.isFromIDBRef = FALSE]
  ELSE SaveToIDB(h, h.storedValue, h.key)

\* A commit of the hook rendered with key k: the effects whose dependencies
\* changed run, cleanups first.  The render returns state.value and, in the
\* rich variant, loading: !hasLoadedRef.current, as they are when it runs,
\* before its effects.  The simple variant's main effect depends on
\* the key (and the configuration); the rich variant's on `conf`, a new object
\* in every render.
CommitW(w, k, first) ==
  LET h == w.hook
      mainRuns == first \/ env.variant = "rich" \/ k # h.effectKey
      saveRuns == env.variant = "rich"
                  /\ (first \/ h.storedValue # h.effectValue \/ k # h.effectKey)
      w1 == IF mainRuns /\ ~first THEN CleanupW(w, h.effectKey) ELSE w
      w2 == [w1 EXCEPT !.hook.key = k, !.hook.needsRender = FALSE,
                       !.hook.seenValue = h.storedValue,
                       !.hook.seenLoading =
                          IF env.variant = "rich" THEN ~h.hasLoadedRef ELSE @]
      w3 == IF mainRuns THEN LoadStartW(w2, k) ELSE w2
      w4 == IF saveRuns THEN [w3 EXCEPT !.hook = SaveEffect(@)] ELSE w3
  IN [w4 EXCEPT !.hook.effectKey = k,
                !.hook.effectValue = IF saveRuns THEN h.storedValue ELSE @]

\* The new value a setter call computes: the argument, or the updater applied
\* to the previous value (the simple variant's setState updater gets the
\* latest state, the rich variant's callback reads the state.value of its render).
NewValue(h, arg) ==
  IF arg \in Updaters
  THEN ApplyUpdater(arg, IF env.variant = "rich" THEN h.seenValue ELSE h.storedValue)
  ELSE arg

\* Mutant of UpdateStoredValue: the state is not set by the call; the value
\* only becomes pending for the background write.
UpdateStoredValue_AfterSave(h, arg) ==
  IF env.variant = "rich" THEN [h EXCEPT !.needsRender = TRUE]
  ELSE SaveToIDB(h, NewValue(h, arg), h.key)

\* updateStoredValue(valueOrFn).  Simple variant: setStoredValue(prev => ...)
\* calls saveToIDB(newValue) and returns newValue.  Rich variant:
\* dispatch(UPDATE_VALUE), saved by the effect after the render.
UpdateStoredValue(h, arg) ==
  IF env.variant = "rich"
  THEN [h EXCEPT !.storedValue = NewValue(h, arg), !.lastUpdated = TRUE,
                 !.error = FALSE, !.needsRender = TRUE]
  ELSE [SaveToIDB(h, NewValue(h, arg), h.key) EXCEPT !.storedValue = NewValue(h, arg)]

\* removeStoredValue().  Simple variant: setStoredValue(defaultValue) and
\* saveToIDB(defaultValue).  Rich variant: dispatch(RESET).
RemoveStoredValue(h) ==
  IF env.variant = "rich"
  THEN [h EXCEPT !.storedValue = env.defaultValue, !.lastUpdated = FALSE,
                 !.error = FALSE, !.initialValueRef = env.defaultValue,
                 !.needsRender = TRUE]
  ELSE [SaveToIDB(h, env.defaultValue, h.key) EXCEPT !.storedValue = env.defaultValue]

\* loadInitialValue's catch block (a dispatch to an unmounted component is
\* dropped by React).
LoadCatch(h) ==
  IF env.variant = "rich"
  THEN [h EXCEPT !.error = IF h.mounted = "yes" THEN TRUE ELSE @,
                 !.needsRender = IF h.mounted = "yes" THEN TRUE ELSE @,
                 !.initialValueRef = env.defaultValue,
                 !.isInitializedRef = TRUE, !.hasLoadedRef = TRUE]
  ELSE [h EXCEPT !.isInitializedRef = TRUE, !.hasLoadedRef = TRUE]

\* loadInitialValue after `await storeInstance.get(key)` yielded `got`.
LoadValue(h, l, got) ==
  IF env.variant = "rich"
  THEN LET v == IF got # Undefined THEN got ELSE env.defaultValue
           h1 == IF l.isMounted
                 THEN [h EXCEPT !.isFromIDBRef = TRUE, !.storedValue = v,
                                !.lastUpdated = TRUE, !.error = FALSE,
                                !.needsRender = TRUE, !.initialValueRef = v]
                 ELSE h
       IN [h1 EXCEPT !.isInitializedRef = TRUE, !.hasLoadedRef = TRUE]
  ELSE [h EXCEPT !.storedValue = IF l.isMounted /\ got # Undefined THEN got ELSE @,
                 !.isInitializedRef = TRUE, !.hasLoadedRef = TRUE]

\* Mutant of Becomes: the current value is kept in one place for all bindings.
Becomes_SharedValue(w) ==
  /\ hook' = [b \in Bindings |->
                IF b = w.id THEN w.hook
                ELSE [hook[b] EXCEPT !.storedValue = w.hook.storedValue]]
  /\ loads' = [loads EXCEPT ![w.id] = w.loads]
  /\ dbConnections' = w.cache
  /\ queue' = w.queue
  /\ connState' = w.conn
  /\ hist' = [hist EXCEPT ![w.id] = w.hist]
  /\ UNCHANGED <<dbVersion, dbStores, records, storeConn, storeName, task,
                 written, env>>
  /\ UNCHANGED facadeVars

\* The world of binding w.id becomes the next state.
Becomes(w) ==
  /\ hook' = [hook EXCEPT ![w.id] = w.hook]
  /\ loads' = [loads EXCEPT ![w.id] = w.loads]
  /\ dbConnections' = w.cache
  /\ queue' = w.queue
  /\ connState' = w.conn
  /\ hist' = [hist EXCEPT ![w.id] = w.hist]
  /\ UNCHANGED <<dbVersion, dbStores, records, storeConn, storeName, task,
                 written, env>>
  /\ UNCHANGED facadeVars

\* The component mounts: the first render and its effects.
Mount(b) ==
  /\ hook[b].mounted = "no"
  /\ Becomes(CommitW([World(b) EXCEPT !.hook.mounted = "yes"], hook[b].key, TRUE))

\* The oldest suspended loadInitialValue continues after `await storage.get(store)`.
LoadSettle(b) ==
  /\ loads[b] # <<>>
  /\ Head(loads[b]).stage = "open"
  /\ Head(loads[b]).promise # "pending"
  /\ LET l == Head(loads[b])
         w == [World(b) EXCEPT !.loads = Tail(@)]
     IN IF l.promise = "rejected"
        THEN Becomes([w EXCEPT !.hook = LoadCatch(@)])
        ELSE IF ~l.isMounted THEN Becomes(w)
        ELSE LET w1 == [w EXCEPT !.hook.storageRef = l.promise,
                                 !.hook.storeRef = l.promise]
             IN IF TransactionThrows(l.promise, bStore)
                THEN Becomes([w1 EXCEPT !.hook = LoadCatch(@)])
                ELSE Becomes([w1 EXCEPT
                       !.queue = Append(@, Txn(b, 1, bStore,
                                               <<Req("get", l.key, Undefined)>>)),
                       !.loads = Append(@, [l EXCEPT !.stage = "read"])])

\* A render the rich variant's dispatch asked for, and its effects.
Render(b) ==
  /\ hook[b].mounted = "yes"
  /\ hook[b].needsRender
  /\ Len(loads[b]) < MaxLoads
  /\ Becomes(CommitW(World(b), hook[b].key, FALSE))

\* The component calls the setter.
SetValue(b) ==
  /\ hook[b].mounted = "yes"
  /\ \E arg \in SetterArgs :
       Becomes([World(b) EXCEPT
         !.hook = UpdateStoredValue(@, arg),
         !.hist = [@ EXCEPT !.lastCall = "set", !.arg = NewValue(hook[b], arg),
                            !.fn = IF arg \in Updaters THEN arg ELSE "none",
                            !.prev = hook[b].storedValue,
                            !.loaded = hook[b].isInitializedRef /\ hook[b].hasLoadedRef,
                            !.key = hook[b].key, !.turn = ~@,
                            !.writes = IF hook[b].saveTimeoutRef = "armed" THEN @ ELSE 0]])

\* The component calls the remover.
RemoveValue(b) ==
  /\ hook[b].mounted = "yes"
  /\ Becomes([World(b) EXCEPT
       !.hook = RemoveStoredValue(@),
       !.hist = [@ EXCEPT !.lastCall = "remove", !.arg = env.defaultValue,
                          !.fn = "none", !.prev = hook[b].storedValue,
                          !.loaded = hook[b].isInitializedRef /\ hook[b].hasLoadedRef,
                            !.key = hook[b].key, !.turn = ~@,
                          !.writes = IF hook[b].saveTimeoutRef = "armed" THEN @ ELSE 0]])

\* refresh() of the rich variant: returns at once without a store.
Refresh(b) ==
  /\ hook[b].mounted = "yes"
  /\ env.variant = "rich"
  /\ IF ~env.idbAvailable \/ hook[b].storeRef = "none"
     THEN Becomes(World(b))
     ELSE /\ ~TransactionThrows(hook[b].storeRef, bStore)
          /\ Becomes([World(b) EXCEPT
               !.queue = Append(@, Txn(b, 2, bStore,
                                       <<Req("get", hook[b].key, Undefined)>>))])

\* The component is rendered with another key.
ChangeKey(b) ==
  /\ hook[b].mounted = "yes"
  /\ Len(loads[b]) < MaxLoads
  /\ \E k \in Keys \ {hook[b].key} :
       Becomes([CommitW(World(b), k, FALSE) EXCEPT !.hist.lastCall = "none"])

\* The component unmounts: the main effect's cleanup.
Unmount(b) ==
  /\ hook[b].mounted = "yes"
  /\ Becomes([CleanupW(World(b), hook[b].effectKey) EXCEPT !.hook.mounted = "unmounted"])

\* The catch handler of the timer's write.  Rich variant: console.error and
\* dispatch(SET_ERROR), whose reducer case is {...state, error}: the value
\* stays.  Simple variant: console.error only.
WriteCatch(h) ==
  IF env.variant = "rich" /\ h.mounted = "yes"
  THEN [h EXCEPT !.error = TRUE, !.needsRender = TRUE]
  ELSE h

\* The debounce timer fires.  TimerFire and HookEngineRun are no disjuncts of
\* NextBinding: by BindingNeverHasStore the timer is never armed and no request
\* of the binding reaches the engine, so neither is ever enabled.
TimerFire(b) ==
  /\ hook[b].saveTimeoutRef = "armed"
  /\ LET v == hook[b].pendingValueRef
         w == [World(b) EXCEPT !.hook.pendingValueRef = Null,
                            !.hook.saveTimeoutRef = "stale"]
     IN IF v # Null /\ hook[b].storeRef # "none"
        THEN IF TransactionThrows(hook[b].storeRef, bStore)
             THEN Becomes([w EXCEPT !.hook = WriteCatch(@)])
             ELSE Becomes(HookSet(w, hook[b].timerKey, v))
        ELSE Becomes(w)

\* The engine answers a request of the binding: the read of loadInitialValue
\* (1), the read of refresh (2) or a write (0).
HookEngineRun ==
  /\ queue # <<>>
  /\ Head(queue).task \in Bindings
  /\ LET h == Head(queue)
         b == h.task
         got == records[h.store][h.reqs[1].key]
         refreshed == IF got # Undefined THEN got ELSE env.defaultValue
     IN /\ records' = [records EXCEPT ![h.store] = ApplyReqs(@, h.reqs)]
        /\ queue' = Tail(queue)
        /\ IF h.idx = 1
           THEN /\ hook' = [hook EXCEPT ![b] = LoadValue(@, Head(loads[b]), got)]
                /\ loads' = [loads EXCEPT ![b] = Tail(@)]
           ELSE IF h.idx = 2
           THEN /\ hook' = [hook EXCEPT ![b] =
                              [@ EXCEPT !.isFromIDBRef = TRUE, !.storedValue = refreshed,
                                        !.lastUpdated = TRUE, !.error = FALSE,
                                        !.needsRender = TRUE,
                                        !.initialValueRef = refreshed]]
                /\ loads' = loads
           ELSE /\ hook' = IF env.variant = "rich"
                           THEN [hook EXCEPT ![b].initialValueRef = h.reqs[1].val]
                           ELSE hook
                /\ loads' = loads
  /\ UNCHANGED <<dbVersion, dbStores, connState, storeConn, storeName, task,
                 written, dbConnections, env, hist>>
  /\ UNCHANGED facadeVars

\* ------------------------------------------------------------ SpecBinding
\* A component about to mount on a fresh engine, or on an engine whose
\* database holds a record under k1 from an earlier session.
InitBinding ==
  /\ \E prior \in {Undefined, "a"} :
       /\ dbVersion = IF prior = Undefined THEN 0 ELSE 1
       /\ dbStores = IF prior = Undefined THEN {} ELSE {"default"}
       /\ records = [s \in StoreNames |-> [k \in Keys |->
                       IF s = "default" /\ k = "k1" THEN prior ELSE Undefined]]
  /\ connState = [c \in ConnIds |-> "unused"]
  /\ queue = <<>>
  /\ storeConn = "c1"
  /\ storeName = "default"
  /\ task = [t \in Tasks |-> IdleTask]
  /\ written = [k \in Keys |-> Undefined]
  /\ dbConnections = [ck \in CacheKeys |-> "absent"]
  /\ globals = GlobalsInit
  /\ facade = FacadeInit
  /\ gw = GwInit
  /\ env \in [variant : {"simple", "rich"}, idbAvailable : BOOLEAN,
              defaultValue : Values]
  /\ hook = HooksInit(env.defaultValue)
  /\ loads = [b \in Bindings |-> <<>>]
  /\ hist = [b \in Bindings |-> HistInit]

NextBinding ==
  \/ Mount("b1")
  \/ LoadSettle("b1")
  \/ Render("b1")
  \/ SetValue("b1")
  \/ RemoveValue("b1")
  \/ Refresh("b1")
  \/ ChangeKey("b1")
  \/ Unmount("b1")

SpecBinding == InitBinding /\ [][NextBinding]_vars

\* ------------------------------------------------------------ SpecPair
\* Two components use the hook (the simple variant) on the same database and
\* store, b1 with key k1 and b2 with key k2, on an available engine.
InitPair ==
  /\ dbVersion = 0
  /\ dbStores = {}
  /\ records = [s \in StoreNames |-> [k \in Keys |-> Undefined]]
  /\ connState = [c \in ConnIds |-> "unused"]
  /\ queue = <<>>
  /\ storeConn = "c1"
  /\ storeName = "default"
  /\ task = [t \in Tasks |-> IdleTask]
  /\ written = [k \in Keys |-> Undefined]
  /\ dbConnections = [ck \in CacheKeys |-> "absent"]
  /\ env \in [variant : {"simple"}, idbAvailable : {TRUE}, defaultValue : Values]
  /\ hook = HooksInit(env.defaultValue)
  /\ loads = [b \in Bindings |-> <<>>]
  /\ hist = [b \in Bindings |-> HistInit]
  /\ globals = GlobalsInit
  /\ facade = FacadeInit
  /\ gw = GwInit

NextPair ==
  \E b \in Bindings :
    \/ Mount(b)
    \/ LoadSettle(b)
    \/ SetValue(b)
    \/ RemoveValue(b)
    \/ Unmount(b)

SpecPair == InitPair /\ [][NextPair]_vars

\* ------------------------------------------------------------ SpecConfig
\* The module was imported; callers configure and construct.
InitConfig ==
  /\ dbVersion = 0
  /\ dbStores = {}
  /\ records = [s \in StoreNames |-> [k \in Keys |-> Undefined]]
  /\ connState = [c \in ConnIds |-> "unused"]
  /\ queue = <<>>
  /\ storeConn = "c1"
  /\ storeName = "default"
  /\ task = [t \in Tasks |-> IdleTask]
  /\ written = [k \in Keys |-> Undefined]
  /\ dbConnections = [ck \in CacheKeys |-> "absent"]
  /\ env = [variant |-> "simple", idbAvailable |-> TRUE, defaultValue |-> Null]
  /\ hook = HooksInit(Null)
  /\ loads = [b \in Bindings |-> <<>>]
  /\ hist = [b \in Bindings |-> HistInit]
  /\ globals = GlobalsInit
  /\ facade = FacadeInit
  /\ gw = GwInit

NextConfig ==
  \/ ConfigureIDBStorage
  \/ \E f \in Facades : New(f)
  \/ HookNew

SpecConfig == InitConfig /\ [][NextConfig]_vars

\* ------------------------------------------------------------ SpecFacade
\* The database exists at version 1 and its store 'default' holds a record
\* written in an earlier session; callers construct facades and use them.
InitFacade ==
  /\ dbVersion = 1
  /\ dbStores = {"default"}
  /\ records = [s \in StoreNames |-> [k \in Keys |->
                  IF s = "default" /\ k = "k1" THEN "a" ELSE Undefined]]
  /\ connState = [c \in ConnIds |-> "unused"]
  /\ queue = <<>>
  /\ storeConn = "c1"
  /\ storeName = "default"
  /\ task = [t \in Tasks |-> IdleTask]
  /\ written = [k \in Keys |-> Undefined]
  /\ dbConnections = [ck \in CacheKeys |-> "absent"]
  /\ env = [variant |-> "simple", idbAvailable |-> TRUE, defaultValue |-> Null]
  /\ hook = HooksInit(Null)
  /\ loads = [b \in Bindings |-> <<>>]
  /\ hist = [b \in Bindings |-> HistInit]
  /\ globals = GlobalsInit
  /\ facade = FacadeInit
  /\ gw = GwInit

NextFacade ==
  \/ \E f \in Facades : New(f)
  \/ \E f \in Facades : FacadeGet(f)
  \/ \E f \in Facades : FacadeDrop(f)
  \/ \E f \in Facades : FacadeClose(f)

SpecFacade == InitFacade /\ [][NextFacade]_vars

\* ------------------------------------------------------------ SpecFacadeUpgrade
\* The facade `idb` of index.ts next to two direct callers of openDB on the
\* same database, one of which may ask for a higher version.
NextFacadeUpgrade ==
  \/ FacadeGet("idb")
  \/ FacadeJoin("idb")
  \/ FacadeClose("idb")
  \/ \E o \in {"o1", "o2"} : OpenDB(o)
  \/ EngineOpen
  \/ EngineOpenError

SpecFacadeUpgrade == InitFacade /\ [][NextFacadeUpgrade]_vars

\* ------------------------------------------------------------ SpecStore
\* The state after openDB("db", "default", 1) resolved on a fresh engine and an
\* IDBStore was built on the connection.
InitStore ==
  /\ dbVersion = 1
  /\ dbStores = {"default", "other"}
  /\ records = [s \in StoreNames |-> [k \in Keys |->
                  IF s = "other" /\ k = "k1" THEN "a" ELSE Undefined]]
  /\ connState = [c \in ConnIds |-> IF c = "c1" THEN "open" ELSE "unused"]
  /\ queue = <<>>
  /\ storeConn = "c1"
  /\ storeName = "default"
  /\ task = [t \in Tasks |-> IdleTask]
  /\ written = [k \in Keys |-> Undefined]
  /\ dbConnections = [ck \in CacheKeys |->
                         IF ck = <<"sohanemon-idb", 1, "default">> THEN "c1" ELSE "absent"]
  /\ globals = GlobalsInit
  /\ facade = FacadeInit
  /\ gw = GwInit
  /\ env = [variant |-> "simple", idbAvailable |-> TRUE, defaultValue |-> Null]
  /\ hook = HooksInit(Null)
  /\ loads = [b \in Bindings |-> <<>>]
  /\ hist = [b \in Bindings |-> HistInit]

NextStore ==
  \/ \E t \in Tasks : Call(t)
  \/ EngineRun

SpecStore == InitStore /\ [][NextStore]_vars

\* ------------------------------------------------------------ SpecGateway
\* Callers of openDB on a database that does not exist yet, or that an
\* earlier session left at version 1 or 2 with the store 'default'.
InitGateway ==
  /\ dbVersion \in 0..2
  /\ dbStores = IF dbVersion = 0 THEN {} ELSE {"default"}
  /\ records = [s \in StoreNames |-> [k \in Keys |-> Undefined]]
  /\ connState = [c \in ConnIds |-> "unused"]
  /\ queue = <<>>
  /\ storeConn = "c1"
  /\ storeName = "default"
  /\ task = [t \in Tasks |-> IdleTask]
  /\ written = [k \in Keys |-> Undefined]
  /\ dbConnections = [ck \in CacheKeys |-> "absent"]
  /\ globals = GlobalsInit
  /\ facade = FacadeInit
  /\ gw = GwInit
  /\ env = [variant |-> "simple", idbAvailable |-> TRUE, defaultValue |-> Null]
  /\ hook = HooksInit(env.defaultValue)
  /\ loads = [b \in Bindings |-> <<>>]
  /\ hist = [b \in Bindings |-> HistInit]

NextGateway ==
  \/ \E o \in GwCalls : OpenDB(o)
  \/ EngineOpen
  \/ EngineOpenError

SpecGateway == InitGateway /\ [][NextGateway]_vars

\* ------------------------------------------------------------ SpecGatewayLive
\* The same callers on an engine that answers every open request: each
\* request gets its success or its VersionError.
FairGateway == WF_vars(EngineOpen) /\ WF_vars(EngineOpenError)

SpecGatewayLive == InitGateway /\ [][NextGateway]_vars /\ FairGateway

\* ------------------------------------------------------------ SpecGatewayFaults
\* The same callers on an engine whose opens may also fail for other reasons.
NextGatewayFaults ==
  \/ NextGateway
  \/ EngineOpenFail

SpecGatewayFaults == InitGateway /\ [][NextGatewayFaults]_vars

\* ------------------------------------------------------------ SpecStoreFaults
\* The same callers on an engine whose requests and commits may fail.
NextStoreFaults ==
  \/ \E t \in Tasks : Call(t)
  \/ EngineRun
  \/ EngineRequestError
  \/ EngineCommitAbort

SpecStoreFaults == InitStore /\ [][NextStoreFaults]_vars

\* ------------------------------------------------------------ claims: IDBStore
\* Task t's operation resolves in this step.
Resolves(t) == task[t].st = "pending" /\ task'[t].st \in {"done", "idle"}

\* C1: a get never rejects on an open store, and resolves to what the most
\* recently completed set (or delete, update, batch) left under its key:
\* the stored plain-data value, null included, or undefined when none was written.
C1_GetReturnsLastCompletedSet ==
  \A t \in Tasks :
    task[t].op = "get" =>
      /\ task[t].st # "failed"
      /\ task[t].st = "done" => task[t].res = task[t].expect

\* A get resolved to null after a set of null overwrote an earlier value, and
\* another key never written is still absent.
C1_Witness ==
  /\ task["t1"].op = "get" /\ task["t1"].st = "done"
  /\ task["t1"].key = "k1" /\ task["t1"].res = Null
  /\ records[storeName]["k2"] = Undefined

\* C23: an operation whose request or transaction failed has rejected.
C23_FailedOperationRejects ==
  \A t \in Tasks : task[t].err # "none" => task[t].st = "failed"

C28_UpdateWritesFOfValueRead ==
  [][\A t \in Tasks :
       (task[t].op = "update" /\ task[t].phase = "writing" /\ Resolves(t)) =>
         records'[storeName][task[t].key] = ApplyUpdater(task[t].fn, task[t].farg)
    ]_vars

\* A lost update: t1's update read "a", another update flipped the record to
\* null before t1's write, and the record is t1's flip applied to "a", null,
\* where one update after the other leaves "a".
C28_Witness ==
  /\ task["t1"].op = "update" /\ task["t1"].st = "done"
  /\ task["t1"].fn = "flip" /\ task["t1"].farg = "a"
  /\ ~task["t1"].clean /\ task["t1"].by = "update" /\ task["t1"].byVal = Null
  /\ records[storeName][task["t1"].key] = Null

\* C8: when delete(k) or deleteMany(ks) resolves, every key it names holds no
\* record and every other key's record is what it was.
C8_DeleteRemovesNamedKeysOnly ==
  [][\A t \in Tasks :
       Resolves(t) /\ task[t].op \in {"delete", "deleteMany"} =>
         LET gone == IF task[t].op = "delete" THEN {task[t].key}
                     ELSE {task[t].keys[i] : i \in 1..Len(task[t].keys)}
         IN /\ \A k \in gone : records'[storeName][k] = Undefined
            /\ \A k \in Keys \ gone : records'[storeName][k] = records[storeName][k]
    ]_storeVars

\* deleteMany(["k1", "k1"]) resolved (the second delete found the key absent)
\* while k2 keeps its record.
C8_Witness ==
  /\ task["t1"].op = "deleteMany" /\ task["t1"].st = "done"
  /\ task["t1"].keys = <<"k1", "k1">>
  /\ records[storeName]["k1"] = Undefined
  /\ records[storeName]["k2"] = "a"

C12_ScansAreExact ==
  \A t \in Tasks :
    (task[t].st = "done" /\ task[t].op \in {"keys", "values", "entries"}) =>
      LET e == task[t].expects
          r == task[t].ress
      IN /\ Len(r) = Len(e)
         /\ \A i \in 1..Len(e) :
              r[i] = CASE task[t].op = "keys" -> e[i][1]
                       [] task[t].op = "values" -> e[i][2]
                       [] OTHER -> e[i]

\* entries() resolved to both pairs, one of them holding null.
C12_Witness ==
  /\ task["t1"].op = "entries" /\ task["t1"].st = "done"
  /\ task["t1"].ress = <<<<"k1", Null>>, <<"k2", "a">>>>

\* C9: when update(key, f) resolves and no other writer touched the key
\* meanwhile, f was called once, with the current record c (undefined when
\* there is none), and the key now holds f(c).
C9_UpdateStoresFOfCurrent ==
  [][\A t \in Tasks :
       Resolves(t) /\ task[t].op = "update" /\ task[t].clean =>
         LET c == records[storeName][task[t].key]
         IN /\ task[t].fcalls = 1
            /\ task[t].farg = c
            /\ records'[storeName][task[t].key] = ApplyUpdater(task[t].fn, c)
    ]_storeVars

\* An update with the toggle ran on a key holding "a": it was handed "a" and
\* stored null.
C9_Witness ==
  /\ task["t1"].op = "update" /\ task["t1"].st = "done" /\ task["t1"].clean
  /\ task["t1"].fn = "flip" /\ task["t1"].farg = "a" /\ task["t1"].fcalls = 1
  /\ records[storeName][task["t1"].key] = Null

\* C10: getMany(keys) resolves to one result per key, in the order of keys:
\* the value last set under that key (by set, or by the last entry of a setMany
\* that names it), or undefined when the key holds no record.
C10_GetManyInKeyOrder ==
  \A t \in Tasks :
    task[t].op = "getMany" /\ task[t].st = "done" =>
      /\ Len(task[t].ress) = Len(task[t].keys)
      /\ \A i \in 1..Len(task[t].keys) : task[t].ress[i] = task[t].expects[i]

\* getMany(["k2", "k1"]) resolved to [undefined, "a"].
C10_Witness ==
  /\ task["t1"].op = "getMany" /\ task["t1"].st = "done"
  /\ task["t1"].keys = <<"k2", "k1">>
  /\ task["t1"].ress = <<Undefined, "a">>

\* ------------------------------------------------------------ claims on the binding
\* The binding is at rest: no load is suspended, the engine has nothing to
\* run, no timer is armed and no render is due.
Quiescent ==
  /\ loads["b1"] = <<>>
  /\ queue = <<>>
  /\ hook["b1"].saveTimeoutRef # "armed"
  /\ ~hook["b1"].needsRender

\* The record a fresh IDBStore would get under the bound key.
BoundRecord == records[bStore][hook["b1"].key]

\* C2: a setter call makes the new value the binding's current value in the
\* step of the call itself, in which no write is issued and no record changes.
C2_SetterUpdatesValueInSameStep ==
  [][(hist'["b1"].turn # hist["b1"].turn /\ hist'["b1"].lastCall = "set")
       => /\ hook'["b1"].storedValue = hist'["b1"].arg
          /\ queue' = queue
          /\ records' = records]_vars

C2_Witness ==
  /\ hook["b1"].mounted = "yes"
  /\ hist["b1"].lastCall = "set"
  /\ hist["b1"].arg # env.defaultValue
  /\ hook["b1"].storedValue = hist["b1"].arg
  /\ BoundRecord # hook["b1"].storedValue

\* C3: on a loaded binding at rest after setter and remover calls, the record
\* under the bound key is the binding's current value.
C3_PersistedAfterQuiescence ==
  (/\ env.idbAvailable
   /\ hook["b1"].mounted = "yes"
   /\ Quiescent
   /\ hist["b1"].lastCall \in {"set", "remove"}
   /\ hist["b1"].loaded)
  => BoundRecord = hook["b1"].storedValue

\* C4: the setter calls of one debounce window on a loaded binding give
\* exactly one write, of the last value set.
C4_OneWritePerWindow ==
  (/\ env.idbAvailable
   /\ hook["b1"].mounted = "yes"
   /\ Quiescent
   /\ hist["b1"].lastCall = "set"
   /\ hist["b1"].loaded)
  => (hist["b1"].writes = 1 /\ hist["b1"].lastWrite = hist["b1"].arg)

\* C5: once a binding unmounted after a setter call and the engine is idle,
\* the value that was set is the record under the bound key.
C5_FlushOnTeardown ==
  (/\ env.idbAvailable
   /\ hook["b1"].mounted = "unmounted"
   /\ hist["b1"].lastCall = "set"
   /\ hist["b1"].loaded
   /\ hist["b1"].key = hook["b1"].key
   /\ queue = <<>>)
  => (hist["b1"].writes = 1 /\ BoundRecord = hist["b1"].arg)

\* C6: after removeValue on a loaded binding, the current value is the default
\* and, at rest, so is the record under the bound key.
C6_RemovePersistsDefault ==
  (/\ env.idbAvailable
   /\ hook["b1"].mounted = "yes"
   /\ hist["b1"].lastCall = "remove"
   /\ hist["b1"].loaded)
  => /\ hook["b1"].storedValue = env.defaultValue
     /\ Quiescent => BoundRecord = env.defaultValue

\* C7: when the load of the bound key is over, the current value is the
\* stored record if there is one, and the default otherwise.
C7_LoadGivesRecordOrDefault ==
  (/\ hook["b1"].mounted = "yes"
   /\ env.idbAvailable
   /\ hook["b1"].isInitializedRef /\ hook["b1"].hasLoadedRef
   /\ loads["b1"] = <<>>
   /\ hist["b1"].lastCall = "none")
  => hook["b1"].storedValue = IF BoundRecord # Undefined THEN BoundRecord
                        ELSE env.defaultValue

\* No facade open of the binding ever yields a store: the binding never
\* reads, never arms its timer and never writes.
BindingNeverHasStore ==
  /\ hook["b1"].storeRef = "none"
  /\ hook["b1"].saveTimeoutRef = "none"
  /\ hist["b1"].writes = 0
  /\ \A i \in DOMAIN loads["b1"] : loads["b1"][i].promise = "rejected"

\* C16: a setter, remover or unmount step of one binding leaves the current
\* value of a binding with a different key, and the record under that key,
\* as they were.
C16_BindingsDoNotInterfere ==
  [][\A b, o \in Bindings :
       (/\ b # o
        /\ hook[b].key # hook[o].key
        /\ \/ hist'[o].turn # hist[o].turn
           \/ hook'[o].mounted # hook[o].mounted) =>
         /\ hook'[b].storedValue = hook[b].storedValue
         /\ records'[bStore][hook[b].key] = records[bStore][hook[b].key]
    ]_vars

\* Both bindings are mounted and loaded; b1 holds a value its setter gave it,
\* b2 holds another value of its own, and b1 was the last to be set.
C16_Witness ==
  /\ hook["b1"].mounted = "yes" /\ hook["b2"].mounted = "yes"
  /\ hook["b1"].key # hook["b2"].key
  /\ hist["b1"].lastCall = "set" /\ hist["b2"].lastCall = "set"
  /\ hook["b1"].storedValue = "a"
  /\ hook["b2"].storedValue = Null
  /\ hist["b1"].prev = Null
  /\ hist["b1"].loaded /\ hist["b2"].loaded

\* C17: a functional setter call leaves f(latest current value) as the
\* current value.
C17_UpdaterSeesLatestValue ==
  \A b \in Bindings :
    (hist[b].lastCall = "set" /\ hist[b].fn # "none") =>
      hist[b].arg = ApplyUpdater(hist[b].fn, hist[b].prev)

\* C21: without an engine the binding opens nothing, reads nothing and writes
\* nothing; its current value is the value last set, or the default after a
\* remove, and no error is reported.
C21_NoEngineNoStorageCalls ==
  ~env.idbAvailable =>
    /\ \A ck \in CacheKeys : dbConnections[ck] = "absent"
    /\ \A c \in ConnIds : connState[c] = "unused"
    /\ queue = <<>>
    /\ loads["b1"] = <<>>
    /\ hook["b1"].storeRef = "none" /\ hook["b1"].storageRef = "none"
    /\ hook["b1"].saveTimeoutRef = "none"
    /\ hist["b1"].writes = 0
    /\ ~hook["b1"].error
    /\ hist["b1"].lastCall = "set" => hook["b1"].storedValue = hist["b1"].arg
    /\ hist["b1"].lastCall = "remove" => hook["b1"].storedValue = env.defaultValue

\* Without an engine, a mounted binding whose load is over holds a value its
\* setter gave it, other than the default.
C21_Witness ==
  /\ ~env.idbAvailable
  /\ hook["b1"].mounted = "yes"
  /\ hook["b1"].isInitializedRef /\ hook["b1"].hasLoadedRef
  /\ hist["b1"].lastCall = "set"
  /\ hook["b1"].storedValue = hist["b1"].arg
  /\ hook["b1"].storedValue # env.defaultValue

\* C22: once the initial load of a mounted binding is over and no render is
\* due, the loading flag the component was given is false.
C22_LoadingFalseOnceLoadSettled ==
  (/\ env.variant = "rich"
   /\ hook["b1"].mounted = "yes"
   /\ hook["b1"].isInitializedRef /\ hook["b1"].hasLoadedRef
   /\ loads["b1"] = <<>>
   /\ ~hook["b1"].needsRender)
  => ~hook["b1"].seenLoading

\* C25: in the error-tracking variant, when the value set on a loaded binding
\* has not reached the store once its save has run, the current value is the
\* last persisted value and the error field is set.
C25_FailedWriteRevertsAndReports ==
  (/\ env.variant = "rich"
   /\ env.idbAvailable
   /\ hook["b1"].mounted = "yes"
   /\ hist["b1"].lastCall = "set"
   /\ hist["b1"].loaded
   /\ ~hook["b1"].needsRender
   /\ hook["b1"].saveTimeoutRef # "armed"
   /\ queue = <<>>
   /\ BoundRecord # hist["b1"].arg)
  => /\ hook["b1"].storedValue = hook["b1"].initialValueRef
     /\ hook["b1"].error

\* C27: a step that leaves a mounted binding's key as it is starts no load
\* and tears none down: the loads in flight stay as they are.
C27_ReloadOnlyOnKeyChange ==
  [][(/\ hook["b1"].mounted = "yes"
      /\ hook'["b1"].mounted = "yes"
      /\ hook'["b1"].key = hook["b1"].key
      /\ hook["b1"].needsRender /\ ~hook'["b1"].needsRender)
     => loads'["b1"] = loads["b1"]]_vars

\* ------------------------------------------------------------ claims on the facade
\* A get of facade f has settled.
Settled(f) == facade[f].made /\ facade[f].out \in {"resolved", "rejected"}

\* Facade f has called openDB.
Opened(f) == facade[f].made /\ (facade[f].db # "none" \/ facade[f].dbPromise # "none")

\* C13: two facades of identical configuration whose get has settled both
\* hold an accessor, on one shared open connection.
C13_SameConfigSharesConnection ==
  \A f, g \in Facades :
    (f # g /\ Settled(f) /\ Settled(g) /\ facade[f].config = facade[g].config) =>
      /\ facade[f].out = "resolved"
      /\ facade[g].out = "resolved"
      /\ facade[f].db = facade[g].db
      /\ facade[f].db \in ConnIds

\* C14: on a database written at version 1, a get of the written store
\* through a facade configured with version 2 resolves, on an open connection
\* that has the store.
C14_ReadableAfterUpgrade ==
  \A f \in Facades :
    (/\ Settled(f)
     /\ facade[f].config.database = DefaultConfig.database
     /\ facade[f].config.store = "default"
     /\ facade[f].name = "default"
     /\ ClampVersion(facade[f].config.version) = 2
     /\ records["default"]["k1"] = "a") =>
      /\ facade[f].out = "resolved"
      /\ facade[f].db \in ConnIds
      /\ "default" \in dbStores

\* C15: a get(name) that settled, for a name other than the configured store,
\* resolved with an accessor whose store is in the database.
C15_NamedStoreExists ==
  \A f \in Facades :
    (Settled(f) /\ facade[f].name # facade[f].config.store) =>
      /\ facade[f].out = "resolved"
      /\ facade[f].name \in dbStores

\* C18: a constructed facade's configuration is, field by field, the
\* override when one is given, else the value last configured (for a hook in
\* a provider: the provider's value), the version compared after clamping; and
\* configureIDBStorage leaves the fields it is not given as they were.
C18_OverrideThenGlobalThenDefault ==
  [][/\ \A f \in Facades :
          facade'[f] # facade[f] =>
            LET o == facade'[f].input
                base == IF facade'[f].via = "hookInProvider"
                        THEN ContextValue(Partial({"database"},
                               [DefaultConfig EXCEPT !.database = "app"]))
                        ELSE globals.utils
                want == Spread(base, o)
            IN /\ facade'[f].config.database = want.database
               /\ facade'[f].config.store = want.store
               /\ ClampVersion(facade'[f].config.version) = ClampVersion(want.version)
     /\ globals' # globals =>
          \E c \in ConfigInputs :
            /\ globals'.utils = Spread(globals.utils, c)
            /\ \A fld \in ConfigFields \ c.given : globals'.utils[fld] = globals.utils[fld]
    ]_vars

\* C19: a facade that called openDB handed it the configured version floored
\* and clamped to at least 1, and the cache holds its entry under that version.
C19_OpenedAtClampedVersion ==
  \A f \in Facades :
    Opened(f) =>
      /\ GetDBVersionArg = ClampVersion(facade[f].config.version)
      /\ dbConnections[<<facade[f].config.database,
                         ClampVersion(facade[f].config.version),
                         facade[f].config.store>>] # "absent"

\* C20: the exported idb instance works on the database and store that
\* configureIDBStorage last set.
C20_IdbFollowsConfigure ==
  /\ facade["idb"].config.database = globals.utils.database
  /\ facade["idb"].config.store = globals.utils.store


\* C26: the get that follows a close of a facade re-opens: it resolves, and
\* the facade then holds an open connection.
C26_GetAfterCloseReopens ==
  \A f \in Facades :
    (facade[f].made /\ facade[f].afterClose \in {"resolved", "rejected"}) =>
      /\ facade[f].afterClose = "resolved"
      /\ facade[f].db # "none"
      /\ connState[facade[f].db] = "open"


\* ------------------------------------------------------------ claims on the gateway
\* The promise call o got has resolved.
GwResolved(o) ==
  /\ gw.calls[o].owner \in GwCalls
  /\ gw.calls[gw.calls[o].owner].st = "resolved"

\* The connection call o's promise resolved with.
GwConn(o) == gw.conns[gw.calls[gw.calls[o].owner].conn]

\* The connections opened for call o without its store: its escalations.
Escalations(o) ==
  Cardinality({i \in DOMAIN gw.conns : gw.conns[i].for = o /\ ~gw.conns[i].has})

\* C31 (as stated): no call of openDB escalates the version more than once for
\* a missing store.
C31_AtMostOneEscalation ==
  \A o \in GwCalls : Escalations(o) <= 1

\* C31 (amended): every call of openDB whose promise is pending eventually
\* resolves or rejects.
C31_EveryOpenSettles ==
  \A o \in GwCalls :
    (gw.calls[o].st = "pending") ~> (gw.calls[o].st \in {"resolved", "rejected"})

\* A call resolved with a connection that has its store after two
\* escalations: another open raised the database to its first retry's version.
C31_Witness ==
  \E o \in GwCalls :
    /\ gw.calls[o].st = "resolved"
    /\ Escalations(o) = 2
    /\ GwConn(o).has /\ GwConn(o).st = "open"

\* C32: no call of openDB is rejected because the version it asked for is
\* lower than the database's: that open is retried without a version.
C32_VersionLowerIsRetried ==
  \A o \in GwCalls : gw.calls[o].why # "VersionError"

\* C29: a call of openDB made while a promise created under the same key is
\* unreleased gets that promise, and no engine open is issued for it.
C29_SameKeySharesOneOpen ==
  \A o \in GwCalls :
    (gw.calls[o].st # "idle" /\ gw.calls[o].expect # "none") =>
      /\ gw.calls[o].owner = gw.calls[o].expect
      /\ gw.calls[o].opens = 0

\* C30: a connection openDB resolved with contains the store asked for; a
\* connection opened without it is closed, is no call's result, and was
\* followed by an open at its version plus one.
C30_ResolvedConnectionHasStore ==
  /\ \A o \in GwCalls :
       GwResolved(o) => (GwConn(o).has /\ gw.calls[o].store \in dbStores)
  /\ \A i \in DOMAIN gw.conns :
       ~gw.conns[i].has =>
         /\ gw.conns[i].st = "closed"
         /\ gw.conns[i].next = gw.conns[i].version + 1
         /\ \A o \in GwCalls : gw.calls[o].conn # i

\* A call resolved with a connection that has its store, after a connection
\* opened for it without the store was closed.
C30_Witness ==
  \E o \in GwCalls, i \in DOMAIN gw.conns :
    /\ gw.calls[o].st = "resolved"
    /\ gw.conns[i].for = o /\ ~gw.conns[i].has /\ gw.conns[i].st = "closed"
    /\ GwConn(o).has /\ GwConn(o).version = gw.conns[i].version + 1


\* C33: the first get of a facade made after the database's version was
\* raised resolves, and the facade then holds an open connection.
C33_FacadeReopensAfterVersionChange ==
  [][\A f \in Facades :
       (/\ dbVersion > 1
        /\ \E i \in DOMAIN gw.conns :
             gw.conns[i].st = "closed" /\ gw.conns[i].has
        /\ facade[f].made /\ facade[f].out = "none"
        /\ facade'[f].out # "none") =>
         /\ facade'[f].out = "resolved"
         /\ facade'[f].db # "none"]_vars


\* The cache key of facade f's open.
FacadeKey(f) == <<facade[f].config.database, GetDBVersionArg, facade[f].config.store>>

\* C34: after close() of a facade the connection cache holds no entry under
\* the facade's key, so that the next get opens afresh.
C34_CloseEvictsCacheEntry ==
  \A f \in Facades :
    (facade[f].made /\ facade[f].afterClose = "closed") =>
      dbConnections[FacadeKey(f)] = "absent"

\* C35: once facade a was closed, a get of another facade b of the same
\* database and store that was not closed itself yields an accessor on an
\* open connection.
C35_CloseLeavesOtherFacadeUsable ==
  \A a, b \in Facades :
    (/\ a # b
     /\ facade[a].made /\ facade[b].made
     /\ FacadeKey(a) = FacadeKey(b)
     /\ facade[a].afterClose # "no"
     /\ facade[b].afterClose = "no"
     /\ Settled(b)) =>
      /\ facade[b].out = "resolved"
      /\ facade[b].db \in ConnIds
      /\ connState[facade[b].db] = "open"

\* C40: after a get of a facade was rejected, neither the facade nor the
\* connection cache keeps the rejected promise.
C40_FailedOpenIsNotKept ==
  \A f \in Facades :
    (facade[f].made /\ env.idbAvailable /\ facade[f].out = "rejected") =>
      /\ facade[f].dbPromise = "none"
      /\ dbConnections[FacadeKey(f)] = "absent"


\* C36: a get that found the facade's open in flight and a settled get of that
\* facade have resolved to accessors on the connection the facade holds.
C36_JoinedGetsShareTheConnection ==
  \A f \in Facades :
    (facade[f].made /\ facade[f].joined /\ Settled(f)) =>
      /\ facade[f].out = "resolved"
      /\ facade[f].db \in ConnIds


\* C39: a setter call made while the binding is loading is not lost: once the
\* load is over and the binding is at rest, the current value is the value set
\* and the record under the bound key is that value.
C39_SetWhileLoadingIsKept ==
  (/\ env.idbAvailable
   /\ hook["b1"].mounted = "yes"
   /\ hist["b1"].lastCall = "set"
   /\ ~hist["b1"].loaded
   /\ hist["b1"].key = hook["b1"].key
   /\ hook["b1"].hasLoadedRef
   /\ Quiescent)
  => /\ hook["b1"].storedValue = hist["b1"].arg
     /\ BoundRecord = hist["b1"].arg
====
